---- MODULE Spec2Model ----
\* Model of openssl/src/rsa_meth.rs: the RsaMethod owning handle over a foreign
\* RSA_METHOD structure, its accessors, its twelve callback-slot setters, and
\* its Clone and Drop implementations.
EXTENDS Integers, Sequences, FiniteSets, TLC

\* ------------------------------------------------------------------ bounds
MaxHandles == 2      \* RsaMethod values a program holds at once
NumAddrs == 2        \* addresses the foreign allocator can hand out
MaxOps == 3          \* operations in one run

\* ------------------------------------------------------------------ values
Handles == 1..MaxHandles
Addrs == 1..NumAddrs
NULLPTR == 0         \* the null *mut RSA_METHOD
NONE == -1           \* no RsaMethod value in this place
NULLFN == "nullfn"   \* an empty callback slot
NULLSTR == <<>>      \* a null char pointer (no terminated string at all)

NUL == 0
INITIAL_NAME == <<84, 69, 83, 84>>   \* "TEST"
UPDATED_NAME == <<85, 80>>           \* "UP"
EMBEDDED == <<65, 0, 66>>            \* "A\\0B", a name CString::new rejects
Names == {INITIAL_NAME, UPDATED_NAME, EMBEDDED}

INT_MIN == (-2147483647) - 1
INITIAL_FLAGS == 35466
FlagValues == {INT_MIN, 0, INITIAL_FLAGS}

INITIAL_APP_DATA == 35466
UPDATED_APP_DATA == 64250
AppPtrs == {0, INITIAL_APP_DATA, UPDATED_APP_DATA}

Callbacks == {"cb1", "cb2"}
Slots == {"pub_enc", "pub_dec", "priv_enc", "priv_dec", "mod_exp", "bn_mod_exp",
          "init", "finish", "sign", "verify", "keygen", "multi_prime_keygen"}

VARIABLES heap, handles, last, got, ext, ub, nops
vars == <<heap, handles, last, got, ext, ub, nops>>

\* ------------------------------------------------------------------ results
Ok(v) == [tag |-> "Ok", val |-> v]
Err == [tag |-> "Err", val |-> "ErrorStack"]
Panic == [tag |-> "Panic", val |-> "unwrap"]
Undef == [tag |-> "Undefined", val |-> "any"]

\* crate::cvt: a foreign int result r <= 0 is an error
cvt(r) == IF r <= 0 THEN Err ELSE Ok(r)
\* crate::cvt_p / cvt_p_const: a null foreign pointer is an error
cvt_p(p) == IF p = NULLPTR THEN Err ELSE Ok(p)
cvt_p_const(p) == IF p = NULLSTR THEN Err ELSE Ok(p)

\* ------------------------------------------------------------------ strings
HasNul(s) == \E i \in 1..Len(s) : s[i] = NUL
\* CString::new: Err(NulError) on an interior NUL, else the bytes plus a terminator
CString_new(s) == IF HasNul(s) THEN Err ELSE Ok(Append(s, NUL))
\* strlen: the number of bytes before the first NUL
strlen(cs) == (CHOOSE i \in 1..Len(cs) : cs[i] = NUL /\ \A j \in 1..(i-1) : cs[j] # NUL) - 1
\* OPENSSL_strdup: a copy up to and including the first NUL
strdup(cs) == SubSeq(cs, 1, strlen(cs) + 1)
\* CStr::from_ptr(..).to_bytes(): the bytes before the terminator
CStr_from_ptr(cs) == SubSeq(cs, 1, strlen(cs))
\* CStr::to_str: Ok when the bytes are valid UTF-8 (ASCII here)
to_str(bs) == IF \A i \in 1..Len(bs) : bs[i] < 128 THEN Ok(bs) ELSE Err

\* ------------------------------------------------------------------ state
\* memory not currently allocated
FREE ==
    [live |-> FALSE, name |-> NULLSTR, flags |-> 0, app_data |-> 0,
     slots |-> [s \in Slots |-> NULLFN]]

\* RSA_meth_new: a zeroed structure with the flags and a copy of the name
NewStruct(cname, flags) ==
    [live |-> TRUE, name |-> strdup(cname), flags |-> flags, app_data |-> 0,
     slots |-> [s \in Slots |-> NULLFN]]

Live(h) == handles[h] \in Addrs /\ heap[handles[h]].live
FreeAddrs == {a \in Addrs : ~heap[a].live}
\* Free addresses no handle refers to are interchangeable: the least stands for them
Referenced(a) == \E h \in Handles : handles[h] = a
Fresh == {a \in FreeAddrs : ~Referenced(a) /\ \A b \in FreeAddrs : ~Referenced(b) => a <= b}
\* what the foreign allocator may return: a reused or a fresh address, or null
AllocChoices == {a \in FreeAddrs : Referenced(a)} \cup Fresh \cup {NULLPTR}
\* the raw pointers a caller can pass to from_ptr
PtrChoices == {a \in Addrs : Referenced(a)} \cup Fresh \cup {NULLPTR}
FreeHandles == {h \in Handles : handles[h] = NONE}
NewHandle == CHOOSE h \in FreeHandles : \A k \in FreeHandles : h <= k
Active(h) == ub = "none" /\ nops < MaxOps /\ handles[h] # NONE

Rec(op, h, arg, calls, ret, res) ==
    [op |-> op, h |-> h, ptr |-> IF h \in Handles THEN handles[h] ELSE NONE,
     arg |-> arg, calls |-> calls, ret |-> ret, res |-> res]

Init ==
    /\ heap = [a \in Addrs |-> FREE]
    /\ handles = [h \in Handles |-> NONE]
    /\ last = Rec("init", 0, 0, <<>>, 0, Ok(0))
    /\ got = <<>>
    /\ ext = [p \in AppPtrs \ {0} |-> "untouched"]
    /\ ub = "none"
    /\ nops = 0

\* A foreign call made through a null or dangling pointer: undefined behaviour.
\* The call may crash, or return anything. Nothing about the run is defined
\* afterwards, so no operation is modelled once ub is set (see Active).
Undefined(op, h, arg, call) ==
    /\ ub' = (IF handles[h] = NULLPTR THEN "null_deref" ELSE "use_after_free")
    /\ \E r \in {Undef, Err, Panic} :
         last' = Rec(op, h, arg, <<call>>, NONE, r)
    /\ nops' = nops + 1
    /\ UNCHANGED <<heap, handles, got, ext>>

\* ------------------------------------------------------------------ lifecycle
new(name, flags) ==
    /\ ub = "none" /\ nops < MaxOps
    /\ nops' = nops + 1
    /\ UNCHANGED <<got, ext, ub>>
    /\ LET cname == CString_new(name) IN
       IF cname.tag = "Err"
       THEN /\ last' = Rec("new", 0, <<name, flags>>, <<>>, NONE, Panic)
            /\ UNCHANGED <<heap, handles>>
       ELSE \E ptr \in AllocChoices :
              LET r == cvt_p(ptr) IN
              IF r.tag = "Err"
              THEN /\ last' = Rec("new", 0, <<name, flags>>, <<"RSA_meth_new">>, ptr, Err)
                   /\ UNCHANGED <<heap, handles>>
              ELSE /\ FreeHandles # {}
                   /\ heap' = [heap EXCEPT ![ptr] = NewStruct(cname.val, flags)]
                   /\ handles' = [handles EXCEPT ![NewHandle] = ptr]
                   /\ last' = Rec("new", NewHandle, <<name, flags>>,
                                  <<"RSA_meth_new">>, ptr, Ok(NewHandle))

as_ptr(h) ==
    /\ Active(h)
    /\ nops' = nops + 1
    /\ last' = Rec("as_ptr", h, 0, <<>>, NONE, Ok(handles[h]))
    /\ UNCHANGED <<heap, handles, got, ext, ub>>

from_ptr(ptr) ==
    /\ ub = "none" /\ nops < MaxOps
    /\ FreeHandles # {}
    /\ nops' = nops + 1
    /\ handles' = [handles EXCEPT ![NewHandle] = ptr]
    /\ last' = Rec("from_ptr", NewHandle, ptr, <<>>, NONE, Ok(NewHandle))
    /\ UNCHANGED <<heap, got, ext, ub>>

\* Mutant: the duplicate wraps the original's own pointer instead of a copy
duplicate_shared(h, ptr) ==
    LET r == cvt_p(ptr) IN
    IF r.tag = "Err"
    THEN [res |-> Err, heap |-> heap, handles |-> handles]
    ELSE [res |-> Ok(NewHandle), heap |-> heap,
          handles |-> [handles EXCEPT ![NewHandle] = handles[h]]]

\* RsaMethod::duplicate applied to handle h, the foreign allocator returning ptr
duplicate(h, ptr) ==
    LET r == cvt_p(ptr) IN
    IF r.tag = "Err"
    THEN [res |-> Err, heap |-> heap, handles |-> handles]
    ELSE [res |-> Ok(NewHandle),
          heap |-> [heap EXCEPT ![ptr] = [heap[handles[h]] EXCEPT
                                            !.name = strdup(heap[handles[h]].name)]],
          handles |-> [handles EXCEPT ![NewHandle] = ptr]]

clone(h) ==
    /\ Active(h)
    /\ IF Live(h)
       THEN /\ \E ptr \in AllocChoices :
                 /\ ptr # NULLPTR => FreeHandles # {}
                 /\ LET d == duplicate(h, ptr) IN
                    /\ heap' = d.heap
                    /\ handles' = d.handles
                    /\ last' = Rec("clone", h, 0, <<"RSA_meth_dup">>, ptr,
                                   IF d.res.tag = "Err" THEN Panic ELSE d.res)
            /\ nops' = nops + 1
            /\ UNCHANGED <<got, ext, ub>>
       ELSE Undefined("clone", h, 0, "RSA_meth_dup")

drop(h) ==
    /\ Active(h)
    /\ nops' = nops + 1
    /\ handles' = [handles EXCEPT ![h] = NONE]
    /\ UNCHANGED <<got, ext>>
    /\ IF handles[h] = NULLPTR
       THEN /\ last' = Rec("drop", h, 0, <<"RSA_meth_free">>, NONE, Ok(0))
            /\ UNCHANGED <<heap, ub>>
       ELSE IF ~heap[handles[h]].live
       THEN /\ ub' = "double_free"
            /\ last' = Rec("drop", h, 0, <<"RSA_meth_free">>, NONE, Undef)
            /\ UNCHANGED heap
       ELSE /\ heap' = [heap EXCEPT ![handles[h]] = FREE]
            /\ last' = Rec("drop", h, 0, <<"RSA_meth_free">>, NONE, Ok(0))
            /\ UNCHANGED ub

\* ------------------------------------------------------------------ scalars
get_name(h) ==
    /\ Active(h)
    /\ IF Live(h)
       THEN LET name == cvt_p_const(heap[handles[h]].name)
                s == IF name.tag = "Err" THEN Err
                     ELSE to_str(CStr_from_ptr(name.val))
                res == IF name.tag = "Err" THEN Err
                       ELSE IF s.tag = "Err" THEN Panic ELSE Ok(s.val)
            IN /\ last' = Rec("get_name", h, 0, <<"RSA_meth_get0_name">>,
                              heap[handles[h]].name, res)
               /\ got' = (IF res.tag = "Ok" THEN <<res.val>> ELSE got)
               /\ nops' = nops + 1
               /\ UNCHANGED <<heap, handles, ext, ub>>
       ELSE Undefined("get_name", h, 0, "RSA_meth_get0_name")

\* Mutant: the result of RSA_meth_set1_name is not converted, Ok(()) always
set_name_unchecked(h, name) ==
    /\ Active(h)
    /\ LET cname == CString_new(name) IN
       IF cname.tag = "Err"
       THEN /\ last' = Rec("set_name", h, name, <<>>, NONE, Panic)
            /\ nops' = nops + 1
            /\ UNCHANGED <<heap, handles, got, ext, ub>>
       ELSE IF Live(h)
       THEN /\ \E ret \in {0, 1} :
                 /\ heap' = (IF ret = 1
                             THEN [heap EXCEPT ![handles[h]].name = strdup(cname.val)]
                             ELSE heap)
                 /\ last' = Rec("set_name", h, name, <<"RSA_meth_set1_name">>, ret, Ok(0))
            /\ nops' = nops + 1
            /\ UNCHANGED <<handles, got, ext, ub>>
       ELSE Undefined("set_name", h, name, "RSA_meth_set1_name")

\* Mutant: the name is cleared by a first foreign call before the new one is set
set_name_clear_first(h, name) ==
    /\ Active(h)
    /\ LET cname == CString_new(name) IN
       IF cname.tag = "Err"
       THEN /\ last' = Rec("set_name", h, name, <<>>, NONE, Panic)
            /\ nops' = nops + 1
            /\ UNCHANGED <<heap, handles, got, ext, ub>>
       ELSE IF Live(h)
       THEN /\ \E ret \in {0, 1} :
                 /\ heap' = [heap EXCEPT ![handles[h]].name =
                                IF ret = 1 THEN strdup(cname.val) ELSE <<NUL>>]
                 /\ last' = Rec("set_name", h, name,
                                <<"RSA_meth_set1_name", "RSA_meth_set1_name">>, ret,
                                IF cvt(ret).tag = "Err" THEN Err ELSE Ok(0))
            /\ nops' = nops + 1
            /\ UNCHANGED <<handles, got, ext, ub>>
       ELSE Undefined("set_name", h, name, "RSA_meth_set1_name")

set_name(h, name) ==
    /\ Active(h)
    /\ LET cname == CString_new(name) IN
       IF cname.tag = "Err"
       THEN /\ last' = Rec("set_name", h, name, <<>>, NONE, Panic)
            /\ nops' = nops + 1
            /\ UNCHANGED <<heap, handles, got, ext, ub>>
       ELSE IF Live(h)
       THEN /\ \E ret \in {0, 1} :
                 /\ heap' = (IF ret = 1
                             THEN [heap EXCEPT ![handles[h]].name = strdup(cname.val)]
                             ELSE heap)
                 /\ last' = Rec("set_name", h, name, <<"RSA_meth_set1_name">>, ret,
                                IF cvt(ret).tag = "Err" THEN Err ELSE Ok(0))
            /\ nops' = nops + 1
            /\ UNCHANGED <<handles, got, ext, ub>>
       ELSE Undefined("set_name", h, name, "RSA_meth_set1_name")

get_flags(h) ==
    /\ Active(h)
    /\ IF Live(h)
       THEN /\ last' = Rec("get_flags", h, 0, <<"RSA_meth_get_flags">>,
                           heap[handles[h]].flags, cvt(heap[handles[h]].flags))
            /\ nops' = nops + 1
            /\ UNCHANGED <<heap, handles, got, ext, ub>>
       ELSE Undefined("get_flags", h, 0, "RSA_meth_get_flags")

set_flags(h, flags) ==
    /\ Active(h)
    /\ IF Live(h)
       THEN /\ heap' = [heap EXCEPT ![handles[h]].flags = flags]
            /\ last' = Rec("set_flags", h, flags, <<"RSA_meth_set_flags">>, 1,
                           IF cvt(1).tag = "Err" THEN Err ELSE Ok(0))
            /\ nops' = nops + 1
            /\ UNCHANGED <<handles, got, ext, ub>>
       ELSE Undefined("set_flags", h, flags, "RSA_meth_set_flags")

get_app_data(h) ==
    /\ Active(h)
    /\ IF Live(h)
       THEN /\ last' = Rec("get_app_data", h, 0, <<"RSA_meth_get0_app_data">>,
                           heap[handles[h]].app_data, Ok(heap[handles[h]].app_data))
            /\ nops' = nops + 1
            /\ UNCHANGED <<heap, handles, got, ext, ub>>
       ELSE Undefined("get_app_data", h, 0, "RSA_meth_get0_app_data")

\* Mutant: a null app_data is rejected instead of stored
set_app_data_nonnull(h, app_data) ==
    /\ Active(h)
    /\ IF Live(h)
       THEN /\ heap' = (IF app_data = 0 THEN heap
                        ELSE [heap EXCEPT ![handles[h]].app_data = app_data])
            /\ last' = Rec("set_app_data", h, app_data, <<"RSA_meth_set0_app_data">>,
                           IF app_data = 0 THEN 0 ELSE 1,
                           IF app_data = 0 THEN Err ELSE Ok(0))
            /\ nops' = nops + 1
            /\ UNCHANGED <<handles, got, ext, ub>>
       ELSE Undefined("set_app_data", h, app_data, "RSA_meth_set0_app_data")

set_app_data(h, app_data) ==
    /\ Active(h)
    /\ IF Live(h)
       THEN /\ heap' = [heap EXCEPT ![handles[h]].app_data = app_data]
            /\ last' = Rec("set_app_data", h, app_data, <<"RSA_meth_set0_app_data">>, 1,
                           IF cvt(1).tag = "Err" THEN Err ELSE Ok(0))
            /\ nops' = nops + 1
            /\ UNCHANGED <<handles, got, ext, ub>>
       ELSE Undefined("set_app_data", h, app_data, "RSA_meth_set0_app_data")

\* ------------------------------------------------------------------ slots
\* One RSA_meth_set_<slot> call through handle h: stores cb in the slot, returns 1
SetSlot(op, call, slot, h, cb) ==
    /\ Active(h)
    /\ IF Live(h)
       THEN /\ heap' = [heap EXCEPT ![handles[h]].slots[slot] = cb]
            /\ last' = Rec(op, h, cb, <<call>>, 1,
                           IF cvt(1).tag = "Err" THEN Err ELSE Ok(0))
            /\ nops' = nops + 1
            /\ UNCHANGED <<handles, got, ext, ub>>
       ELSE Undefined(op, h, cb, call)

set_pub_enc(h, cb) == SetSlot("set_pub_enc", "RSA_meth_set_pub_enc", "pub_enc", h, cb)
\* Mutant: set_pub_dec registers into the pub_enc slot
set_pub_dec_wrong_slot(h, cb) ==
    SetSlot("set_pub_dec", "RSA_meth_set_pub_enc", "pub_enc", h, cb)

set_pub_dec(h, cb) == SetSlot("set_pub_dec", "RSA_meth_set_pub_dec", "pub_dec", h, cb)
set_priv_enc(h, cb) == SetSlot("set_priv_enc", "RSA_meth_set_priv_enc", "priv_enc", h, cb)
set_priv_dec(h, cb) == SetSlot("set_priv_dec", "RSA_meth_set_priv_dec", "priv_dec", h, cb)
set_mod_exp(h, cb) == SetSlot("set_mod_exp", "RSA_meth_set_mod_exp", "mod_exp", h, cb)
set_bn_mod_exp(h, cb) == SetSlot("set_bn_mod_exp", "RSA_meth_set_bn_mod_exp", "bn_mod_exp", h, cb)
set_init(h, cb) == SetSlot("set_init", "RSA_meth_set_init", "init", h, cb)
set_finish(h, cb) == SetSlot("set_finish", "RSA_meth_set_finish", "finish", h, cb)
set_sign(h, cb) == SetSlot("set_sign", "RSA_meth_set_sign", "sign", h, cb)
set_verify(h, cb) == SetSlot("set_verify", "RSA_meth_set_verify", "verify", h, cb)
set_keygen(h, cb) == SetSlot("set_keygen", "RSA_meth_set_keygen", "keygen", h, cb)
set_multi_prime_keygen(h, cb) ==
    SetSlot("set_multi_prime_keygen", "RSA_meth_set_multi_prime_keygen",
            "multi_prime_keygen", h, cb)

\* ------------------------------------------------------------------ system
Next ==
    \/ \E name \in Names, flags \in FlagValues : new(name, flags)
    \/ \E h \in Handles : as_ptr(h)
    \/ \E ptr \in PtrChoices : from_ptr(ptr)
    \/ \E h \in Handles : clone(h)
    \/ \E h \in Handles : drop(h)
    \/ \E h \in Handles : get_name(h)
    \/ \E h \in Handles, name \in Names : set_name(h, name)
    \/ \E h \in Handles : get_flags(h)
    \/ \E h \in Handles, flags \in FlagValues : set_flags(h, flags)
    \/ \E h \in Handles : get_app_data(h)
    \/ \E h \in Handles, app_data \in AppPtrs : set_app_data(h, app_data)
    \/ \E h \in Handles, cb \in Callbacks : set_pub_enc(h, cb)
    \/ \E h \in Handles, cb \in Callbacks : set_pub_dec(h, cb)
    \/ \E h \in Handles, cb \in Callbacks : set_priv_enc(h, cb)
    \/ \E h \in Handles, cb \in Callbacks : set_priv_dec(h, cb)
    \/ \E h \in Handles, cb \in Callbacks : set_mod_exp(h, cb)
    \/ \E h \in Handles, cb \in Callbacks : set_bn_mod_exp(h, cb)
    \/ \E h \in Handles, cb \in Callbacks : set_init(h, cb)
    \/ \E h \in Handles, cb \in Callbacks : set_finish(h, cb)
    \/ \E h \in Handles, cb \in Callbacks : set_sign(h, cb)
    \/ \E h \in Handles, cb \in Callbacks : set_verify(h, cb)
    \/ \E h \in Handles, cb \in Callbacks : set_keygen(h, cb)
    \/ \E h \in Handles, cb \in Callbacks : set_multi_prime_keygen(h, cb)

Spec == Init /\ [][Next]_vars

\* ------------------------------------------------------------------ claims
NameOf(a) == CStr_from_ptr(heap[a].name)
Owners(a) == {h \in Handles : handles[h] = a}
SlotSetters ==
    [set_pub_enc |-> "pub_enc", set_pub_dec |-> "pub_dec", set_priv_enc |-> "priv_enc",
     set_priv_dec |-> "priv_dec", set_mod_exp |-> "mod_exp",
     set_bn_mod_exp |-> "bn_mod_exp", set_init |-> "init", set_finish |-> "finish",
     set_sign |-> "sign", set_verify |-> "verify", set_keygen |-> "keygen",
     set_multi_prime_keygen |-> "multi_prime_keygen"]
AccessorOps ==
    {"get_name", "set_name", "get_flags", "set_flags", "set_app_data"}
        \cup DOMAIN SlotSetters

\* C1: every live RSA_METHOD structure has exactly one owning handle, is freed
\* exactly once, and is never accessed through a handle after it was freed.
C1_ExclusiveOwnership ==
    /\ \A a \in Addrs : heap[a].live => Cardinality(Owners(a)) = 1
    /\ ub \notin {"double_free", "use_after_free"}

\* C2: on a live descriptor set_flags(x) succeeds for every integer x, and a
\* get_flags() that follows it succeeds and returns exactly x.
C2_FlagsRoundTrip ==
    [][/\ (last'.op = "set_flags" /\ ub' = "none") => last'.res.tag = "Ok"
       /\ (/\ last.op = "set_flags" /\ last.res.tag = "Ok"
           /\ last'.op = "get_flags" /\ last'.h = last.h /\ ub' = "none")
          => last'.res = Ok(last.arg)]_vars

\* C3: when new(name, flags) succeeds, get_name() on the result returns exactly
\* name and get_flags() returns exactly flags (new("TEST", 0) gives "TEST" and 0).
C3_NewThenGet ==
    [][(/\ last.op = "new" /\ last.res.tag = "Ok"
        /\ last'.h = last.res.val /\ ub' = "none")
       => /\ last'.op = "get_name" => last'.res = Ok(last.arg[1])
          /\ last'.op = "get_flags" => last'.res = Ok(last.arg[2])]_vars

\* C9: new or set_name with a name holding an embedded NUL returns a typed
\* failure, makes no foreign call, and leaves the descriptor's name unchanged.
C9_EmbeddedNulFails ==
    [][(\/ last'.op = "new" /\ HasNul(last'.arg[1])
        \/ last'.op = "set_name" /\ HasNul(last'.arg))
       => /\ last'.res.tag = "Err"
          /\ last'.calls = <<>>
          /\ heap' = heap]_vars

\* C10: when the foreign allocator returns null, new and clone each return a
\* failure result, create no handle for the null pointer and leave the
\* original descriptor unchanged.
C10_AllocationFailure ==
    [][(/\ last'.op \in {"new", "clone"} /\ ub' = "none"
        /\ last'.calls # <<>> /\ last'.ret = NULLPTR)
       => /\ last'.res.tag = "Err"
          /\ handles' = handles
          /\ heap' = heap]_vars

\* C4: a successful clone yields a handle over a separately allocated structure
\* whose name, flags, app_data and twelve slots equal the original's; any later
\* operation through one handle, and dropping it, leaves every structure at
\* another address unchanged and live.
C4_CloneIndependent ==
    [][/\ (last'.op = "clone" /\ last'.res.tag = "Ok")
          => /\ handles'[last'.res.val] \in Addrs
             /\ handles'[last'.res.val] # last'.ptr
             /\ ~heap[handles'[last'.res.val]].live
             /\ heap'[handles'[last'.res.val]] = heap[last'.ptr]
             /\ heap'[last'.ptr] = heap[last'.ptr]
             /\ heap'[last'.ptr].live
       /\ (last'.op \in AccessorOps \cup {"drop", "get_app_data", "as_ptr"} /\ ub' = "none")
          => \A a \in Addrs : (a # last'.ptr /\ heap[a].live) => heap'[a] = heap[a]]_vars

C4_Witness ==
    /\ last.op = "clone" /\ last.res.tag = "Ok"
    /\ handles[last.res.val] # last.ptr
    /\ heap[last.ptr].live
    /\ \E s \in Slots : heap[handles[last.res.val]].slots[s] \in Callbacks

\* C5 as stated: set_name(x) with a representable x always succeeds on a live
\* descriptor, a following get_name() returns exactly x, and a string returned
\* by an earlier get_name() is not changed.
C5_SetNameAlwaysSucceeds ==
    [][/\ (last'.op = "set_name" /\ ~HasNul(last'.arg) /\ ub' = "none")
          => last'.res.tag = "Ok"
       /\ (/\ last.op = "set_name" /\ last.res.tag = "Ok"
           /\ last'.op = "get_name" /\ last'.h = last.h /\ ub' = "none")
          => last'.res = Ok(last.arg)
       /\ last'.op = "set_name" => got' = got]_vars

\* C5 amended: set_name(x) with a representable x succeeds exactly when the
\* foreign RSA_meth_set1_name returns 1 and otherwise returns a failure with the
\* name unchanged; after a success a following get_name() returns exactly x;
\* a string returned by an earlier get_name() is not changed by set_name.
C5_NameRoundTrip ==
    [][/\ (last'.op = "set_name" /\ ~HasNul(last'.arg) /\ ub' = "none")
          => /\ last'.res.tag = "Ok" <=> last'.ret = 1
             /\ last'.res.tag = "Ok" => CStr_from_ptr(heap'[last'.ptr].name) = last'.arg
             /\ last'.res.tag # "Ok" => last'.res.tag = "Err" /\ heap' = heap
       /\ (/\ last.op = "set_name" /\ last.res.tag = "Ok"
           /\ last'.op = "get_name" /\ last'.h = last.h /\ ub' = "none")
          => last'.res = Ok(last.arg)
       /\ last'.op = "set_name" => got' = got]_vars

C5_Witness ==
    /\ last.op = "set_name" /\ last.res.tag = "Ok" /\ last.arg = UPDATED_NAME
    /\ got = <<INITIAL_NAME>>
    /\ NameOf(last.ptr) = UPDATED_NAME

\* C6: set_app_data(p) stores any pointer p, null included, and a following
\* get_app_data() returns exactly p; get_app_data never returns an error; no
\* operation, drop included, touches the memory app_data points at.
C6_AppDataRoundTrip ==
    [][/\ (last'.op = "set_app_data" /\ ub' = "none")
          => last'.res.tag = "Ok" /\ heap'[last'.ptr].app_data = last'.arg
       /\ (/\ last.op = "set_app_data" /\ last.res.tag = "Ok"
           /\ last'.op = "get_app_data" /\ last'.h = last.h /\ ub' = "none")
          => last'.res = Ok(last.arg)
       /\ (last'.op = "get_app_data" /\ ub' = "none") => last'.res.tag = "Ok"
       /\ ext' = ext]_vars

C6_Witness ==
    /\ last.op = "get_app_data" /\ last.res = Ok(INITIAL_APP_DATA)
    /\ ext = [p \in AppPtrs \ {0} |-> "untouched"]

\* C7: each of the twelve slot setters succeeds on a live descriptor, stores the
\* callback in its own slot whatever was there, and leaves the other eleven
\* slots, the name, the flags and app_data unchanged.
C7_SlotIsolation ==
    [][(last'.op \in DOMAIN SlotSetters /\ ub' = "none")
       => /\ last'.res.tag = "Ok"
          /\ heap'[last'.ptr].slots[SlotSetters[last'.op]] = last'.arg
          /\ \A s \in Slots \ {SlotSetters[last'.op]} :
                heap'[last'.ptr].slots[s] = heap[last'.ptr].slots[s]
          /\ heap'[last'.ptr].name = heap[last'.ptr].name
          /\ heap'[last'.ptr].flags = heap[last'.ptr].flags
          /\ heap'[last'.ptr].app_data = heap[last'.ptr].app_data
          /\ heap'[last'.ptr].live]_vars

C7_Witness ==
    /\ last.op = "set_pub_dec" /\ last.res.tag = "Ok" /\ last.arg = "cb2"
    /\ heap[last.ptr].slots["pub_dec"] = "cb2"
    /\ heap[last.ptr].slots["pub_enc"] = "cb1"

\* C8: when an accessor or setter returns a failure, the structure's name,
\* flags, app_data and slots are what they were before the call, and the
\* descriptor and its handle remain usable.
C8_FailureLeavesState ==
    [][(last'.op \in AccessorOps /\ last'.res.tag = "Err" /\ ub' = "none")
       => /\ heap' = heap
          /\ handles' = handles
          /\ heap'[last'.ptr].live]_vars

C8_Witness ==
    /\ last.op = "set_name" /\ last.res.tag = "Err" /\ ub = "none"
    /\ last.calls = <<"RSA_meth_set1_name">>
    /\ NameOf(last.ptr) # last.arg

====
